---- MODULE Spec2Model ----
(***************************************************************************)
(* A model of app.py: the /boost job.  selenium_boost_worker is a          *)
(* sequential procedure; the model follows it statement group by statement *)
(* group (pc), with the browser, the network and the page as the           *)
(* environment whose answers are chosen nondeterministically.              *)
(*                                                                         *)
(* Conventions                                                             *)
(*   - Python Optional values are sequences of length <= 1: None is <<>>,  *)
(*     a value v is <<v>>.                                                 *)
(*   - A Python str that the code inspects (button text, class attribute)  *)
(*     is a sequence of one-character strings, so that lower(), split(),   *)
(*     join() and "in" are computed, not assumed.                          *)
(*   - A log entry is <<tag, n>>: the fixed part of the f-string and the   *)
(*     number it formats (0 when it formats none).                         *)
(***************************************************************************)
EXTENDS Integers, Sequences, FiniteSets, TLC

\* ------------------------------------------------------------------ bounds
\* Most elements the page shows to the poll and to find_elements; requested
\* counts range over -1..MaxElems.
MaxElems == 2
\* Most environment events that one job meets.  An event is an exception
\* raised by the network, the driver or the page, a growth of the page while
\* scrolling, or an empty reading of the poll.
MaxEvents == 2
\* Most readings the poll takes before its deadline, where the poll is checked
\* on its own.
MaxPolls == 4

\* ------------------------------------------------------- program constants
DEFAULT_MAX_SCROLL_LOOPS == 60
tries == 3
\* The six waits of the sign-in sequence (lines 294, 297, 302, 305, 310, 313).
SignInSteps == 6

None == <<>>
Some(v) == <<v>>

\* ------------------------------------------------------------ Python str
UPPER == <<"A","B","C","D","E","F","G","H","I","J","K","L","M","N","O","P","Q","R","S","T","U","V","W","X","Y","Z">>
LOWER == <<"a","b","c","d","e","f","g","h","i","j","k","l","m","n","o","p","q","r","s","t","u","v","w","x","y","z">>

IsSpace(c) == c \in {" ", "\t", "\n"}

LowerChar(c) ==
    IF \E k \in 1..26 : UPPER[k] = c
    THEN LOWER[CHOOSE k \in 1..26 : UPPER[k] = c]
    ELSE c

\* str.lower()
Lower(s) == [k \in 1..Len(s) |-> LowerChar(s[k])]

\* str.strip(): from the first to the last non-space character.
Strip(s) ==
    LET kept == {k \in 1..Len(s) : ~IsSpace(s[k])}
    IN  IF kept = {} THEN <<>>
        ELSE SubSeq(s, CHOOSE k \in kept : \A j \in kept : k <= j,
                       CHOOSE k \in kept : \A j \in kept : j <= k)

\* Where the maximal runs of non-space characters of s start.
WordStarts(s) ==
    {k \in 1..Len(s) : ~IsSpace(s[k]) /\ (k = 1 \/ IsSpace(s[k - 1]))}

\* Where the run of non-space characters that starts at a ends.
WordEnd(s, a) ==
    CHOOSE b \in a..Len(s) :
        /\ \A k \in a..b : ~IsSpace(s[k])
        /\ (b = Len(s) \/ IsSpace(s[b + 1]))

\* str.split() without arguments: the maximal runs of non-space characters,
\* in order.
Split(s) ==
    [n \in 1..Cardinality(WordStarts(s)) |->
        LET a == CHOOSE k \in WordStarts(s) :
                     Cardinality({j \in WordStarts(s) : j <= k}) = n
        IN  SubSeq(s, a, WordEnd(s, a))]

\* " ".join(words)
RECURSIVE Join(_)
Join(ws) ==
    IF ws = <<>> THEN <<>>
    ELSE IF Len(ws) = 1 THEN ws[1]
    ELSE ws[1] \o <<" ">> \o Join(Tail(ws))

\* sub in s
Contains(s, sub) ==
    \E k \in 0..(Len(s) - Len(sub)) : SubSeq(s, k + 1, k + Len(sub)) = sub

KW_BOOST == <<"b","o","o","s","t">>
KW_PROGRESS == <<"p","r","o","g","r","e","s","s">>
KW_INPROGRESS == <<"i","n","p","r","o","g","r","e","s","s">>
MARKER == <<"u","s","a","g","e","-","b","o","o","s","t","-","i","n","p","r","o","g","r","e","s","s">>

\* ------------------------------------------------- the page: button texts
\* What innerText and the class attribute of a collected button may be.
\* An element of the page is [text |-> id, cls |-> id].
TextOf(t) ==
    CASE t = 1 -> <<"B","o","o","s","t"," ","t","h","i","s"," ","l","i","s","t","i","n","g">>
      [] t = 2 -> <<"B","o","o","s","t"," ","i","n"," ","p","r","o","g","r","e","s","s">>
      [] t = 3 -> <<" ","B","O","O","S","T"," ","\t","N","o","w"," ">>
      [] t = 4 -> <<"E","d","i","t">>
      [] t = 5 -> <<"B","o","o","s","t"," ","I","n","P","r","o","g","r","e","s","s">>
      [] OTHER -> <<>>

\* get_attribute("class"): a value, or None when the attribute is absent.
ClassOf(c) ==
    CASE c = 1 -> Some(<<>>)
      [] c = 2 -> Some(<<"c","m","n","-","-","b","t","n"," ","u","s","a","g","e","-","b","o","o","s","t","-","b","u","t","t","o","n">>)
      [] c = 3 -> Some(<<"c","m","n","-","-","b","t","n"," ","u","s","a","g","e","-","b","o","o","s","t","-","b","u","t","t","o","n"," ","u","s","a","g","e","-","b","o","o","s","t","-","i","n","p","r","o","g","r","e","s","s">>)
      [] c = 4 -> Some(<<"U","s","a","g","e","-","B","o","o","s","t","-","I","n","P","r","o","g","r","e","s","s">>)
      [] OTHER -> None

\* get_element_text_via_js: the stripped text, "" when the script raises.
get_element_text_via_js(t, scriptOk) ==
    IF scriptOk THEN Strip(TextOf(t)) ELSE <<>>

\* norm = " ".join(btn_text.split()) of the lowered text.
NormText(btn_text) ==
    CHOOSE norm \in {Join(words) : words \in {Split(low) : low \in {Lower(btn_text)}}} : TRUE

\* classes = (btn.get_attribute("class") or "").lower()
ClassString(attr) == Lower(IF attr = None THEN <<>> ELSE attr[1])

InProgressMutant(classes, norm) ==
    Contains(classes, MARKER)

\* in_progress, line 364.
InProgress(classes, norm) ==
    \/ Contains(classes, MARKER)
    \/ Contains(norm, KW_PROGRESS)
    \/ Contains(norm, KW_INPROGRESS)

\* The test of line 365.
IsBoostable(classes, norm) ==
    Contains(norm, KW_BOOST) /\ ~InProgress(classes, norm)


\* ------------------------------------------------------------------ state
VARIABLES
    pc,                 \* position in selenium_boost_worker
    num_buttons,        \* the requested count (argument)
    skip_check,         \* SKIP_NETWORK_CHECK as read by network_precheck
    proxy_env,          \* whether HTTPS_PROXY or HTTP_PROXY is set (process-wide)
    opener,             \* urllib.request's process-wide opener: "default", "proxy"
    logs,               \* logs: List[str]
    driver,             \* "none" (driver is None), "open", "quit"
    quitCalls,          \* how many times driver.quit() was called
    attempt,            \* navigation attempt, 1..tries
    slept,              \* the backoffs slept at line 292, in tenths of a second
    step,               \* next wait of the sign-in sequence, 1..SignInSteps
    loops, last_height, \* the scroll loop
    polls, expired,     \* readings taken; whether time.time() - start >= timeout
    found_count, found_context,
    buttons,            \* find_elements: sequence of [text, cls]
    idx,                \* enumerate(buttons, start=1)
    boostable,          \* sequence of [address, btn]; btn is the index in buttons
    to_click, i, clicked, clicked_addresses,
    attempted,          \* the page: the boost clicks the job tried, [btn, ok, by]
    screenshot_b64,
    exc,                \* the exception in flight, Some(message)
    result,             \* the returned BoostResponse, Some(record)
    events              \* environment events met so far (see MaxEvents)

envVars == <<skip_check, proxy_env, opener>>
navVars == <<attempt, slept, step>>
scrollVars == <<loops, last_height>>
pollVars == <<polls, expired, found_count, found_context>>
classVars == <<buttons, idx, boostable>>
clickVars == <<to_click, i, clicked, clicked_addresses, attempted>>
drvVars == <<driver, quitCalls>>

vars == <<pc, num_buttons, envVars, logs, navVars, scrollVars, pollVars,
          classVars, clickVars, drvVars, screenshot_b64, exc, result, events>>

\* A log entry: the text of the f-string and the number it formats.
L(tag) == <<tag, 0>>
LN(tag, n) == <<tag, n>>

\* Requested counts tried: a direct caller may pass any int.
RequestedCounts == (0 - 1)..MaxElems

\* The elements a page may show in a whole job: "Boost this listing" with an
\* empty class, "Boost in progress" with an empty class, "Boost this
\* listing" with the in-progress class.
ElemKinds == {[text |-> 1, cls |-> 1], [text |-> 2, cls |-> 1], [text |-> 1, cls |-> 3]}
\* The elements tried when the classification loop is checked on its own.
AllElemKinds ==
    {[text |-> 1, cls |-> 1], [text |-> 2, cls |-> 1], [text |-> 4, cls |-> 1],
     [text |-> 5, cls |-> 1], [text |-> 1, cls |-> 2], [text |-> 1, cls |-> 3],
     [text |-> 3, cls |-> 4], [text |-> 3, cls |-> 5]}
RECURSIVE SeqsUpTo(_, _)
SeqsUpTo(S, n) ==
    IF n = 0 THEN {<<>>}
    ELSE LET shorter == SeqsUpTo(S, n - 1)
         IN shorter \cup {Append(q, e) : q \in {r \in shorter : Len(r) = n - 1}, e \in S}
Pages == SeqsUpTo(ElemKinds, MaxElems)
AllPages == SeqsUpTo(AllElemKinds, MaxElems)

\* The answers of the environment: "ok", or a raised exception while the
\* event budget lasts.
CanHappen == events < MaxEvents
Answers == IF CanHappen THEN {"ok", "fail"} ELSE {"ok"}

InitWith(proxy) ==
    /\ pc = "idle"
    /\ num_buttons = 0
    /\ skip_check = FALSE
    /\ proxy_env = proxy
    /\ opener = "default"
    /\ logs = <<>>
    /\ driver = "none"
    /\ quitCalls = 0
    /\ attempt = 0
    /\ slept = <<>>
    /\ step = 0
    /\ loops = 0
    /\ last_height = 0
    /\ polls = 0
    /\ expired = FALSE
    /\ found_count = 0
    /\ found_context = None
    /\ buttons = <<>>
    /\ idx = 0
    /\ boostable = <<>>
    /\ to_click = 0
    /\ i = 0
    /\ clicked = 0
    /\ clicked_addresses = <<>>
    /\ attempted = <<>>
    /\ screenshot_b64 = None
    /\ exc = None
    /\ result = None
    /\ events = 0

\* The jobs of Spec run with no proxy configured.
Init == InitWith(FALSE)

\* ---------------------------------------------------------- entry points
\* selenium_boost_worker is entered: locals are initialised, first log line.
WorkerEntry(n) ==
    /\ num_buttons' = n
    /\ logs' = <<L("Starting Selenium worker")>>
    /\ pc' = "precheck"
    /\ UNCHANGED <<envVars, navVars, scrollVars, pollVars, classVars,
                   clickVars, drvVars, screenshot_b64, exc, result, events>>

\* BoostRequest: num_buttons: int = Field(1, ge=1).
BoostRequestValid(n) == n >= 1

\* POST /boost: the request model is validated, then the worker runs.
boost_endpoint(n) ==
    /\ pc = "idle"
    /\ IF BoostRequestValid(n)
       THEN WorkerEntry(n)
       ELSE /\ pc' = "rejected"
            /\ UNCHANGED <<num_buttons, envVars, logs, navVars, scrollVars,
                           pollVars, classVars, clickVars, drvVars,
                           screenshot_b64, exc, result, events>>

\* selenium_boost_worker called directly (it is a public function of app.py).
DirectCall(n) ==
    /\ pc = "idle"
    /\ WorkerEntry(n)

RaiseUncaught(msg) ==
    /\ pc' = "propagated"
    /\ exc' = Some(msg)

\* raise inside the worker's try block: control goes to "except Exception".
Raise(msg) ==
    /\ pc' = "except"
    /\ exc' = Some(msg)

\* The fault count after answer a.
F(a) == IF a = "ok" THEN events ELSE events + 1

\* -------------------------------------------------------- network_precheck
\* Lines 158-188: the skip flag, then HEAD.  head is the answer to the HEAD
\* request: "ok", or the class of the exception urlopen raised.
HeadAnswers == IF CanHappen THEN {"ok", "HTTPError", "URLError", "Exception"} ELSE {"ok"}

PrecheckHead(skip, head) ==
    /\ pc = "precheck"
    /\ skip_check' = skip
    /\ UNCHANGED proxy_env
    /\ IF skip
       THEN /\ logs' = Append(logs, L("SKIP_NETWORK_CHECK=true -> skipping network pre-check"))
            /\ pc' = "binaries"
            /\ UNCHANGED <<events, opener>>
       ELSE /\ events' = F(head)
            \* Lines 168-173: with a proxy configured, install_opener replaces
            \* the process-wide opener; nothing restores it (lines 200-202).
            /\ opener' = IF proxy_env THEN "proxy" ELSE opener
            /\ LET begun == logs \o <<L("Connectivity quick-check")>>
                            \o (IF proxy_env THEN <<L("Using proxy for pre-check")>> ELSE <<>>)
               IN  IF head = "ok"
                   THEN /\ logs' = Append(begun, L("HEAD status_code"))
                        /\ pc' = "binaries"
                   ELSE /\ logs' = Append(begun,
                                      L(CASE head = "HTTPError" -> "HEAD failed with HTTPError, trying GET fallback"
                                          [] head = "URLError" -> "HEAD URLError"
                                          [] OTHER -> "HEAD exception"))
                        /\ pc' = "precheck_get"
    /\ UNCHANGED <<num_buttons, navVars, scrollVars, pollVars, classVars,
                   clickVars, drvVars, screenshot_b64, exc, result>>

PrecheckFatalMutant(skip) == skip

\* The test of line 222: the failure is re-raised unless the skip flag is set.
PrecheckFatal(skip) == ~skip

\* Lines 190-199 and the caller's handler, lines 219-225: the GET fallback; its
\* failure is re-raised by the worker (the skip flag is known to be unset).
PrecheckGet(a) ==
    /\ pc = "precheck_get"
    /\ events' = F(a)
    /\ IF a = "ok"
       THEN /\ logs' = Append(logs, L("GET status_code"))
            /\ pc' = "binaries"
            /\ UNCHANGED exc
       ELSE /\ logs' = Append(logs, L("Pre-check failed"))
            /\ IF PrecheckFatal(skip_check)
               THEN Raise("Network pre-check failed for https://www.affordablehousing.com/")
               ELSE pc' = "binaries" /\ UNCHANGED exc
    /\ UNCHANGED <<num_buttons, envVars, navVars, scrollVars, pollVars,
                   classVars, clickVars, drvVars, screenshot_b64, result>>

\* ------------------------------------------------------- driver acquisition
\* Lines 228-234: the binaries are looked up and logged; no chromedriver is
\* fatal.
FindBinaries(chromedriver_found) ==
    /\ pc = "binaries"
    /\ logs' = logs \o <<L("Detected chrome binary"), L("Detected chromedriver binary")>>
    /\ IF chromedriver_found
       THEN pc' = "acquire" /\ UNCHANGED exc
       ELSE Raise("Chromedriver binary not found. Set CHROMEDRIVER_PATH or install chromedriver in the image.")
    /\ UNCHANGED <<num_buttons, envVars, navVars, scrollVars, pollVars,
                   classVars, clickVars, drvVars, screenshot_b64, result, events>>

\* Lines 236-279: options (with a proxy configured, line 264 logs it),
\* webdriver.Chrome(...), the stealth script (its
\* failure is swallowed and leaves no trace), the WebDriverWait.
AcquireDriver(a) ==
    /\ pc = "acquire"
    /\ events' = F(a)
    /\ logs' = IF proxy_env THEN Append(logs, L("Setting Chrome proxy")) ELSE logs
    /\ IF a = "ok"
       THEN /\ driver' = "open"
            /\ attempt' = 1
            /\ pc' = "nav"
            /\ UNCHANGED exc
       ELSE /\ Raise("Message: session not created")
            /\ UNCHANGED <<driver, attempt>>
    /\ UNCHANGED <<num_buttons, envVars, slept, step, scrollVars, pollVars,
                   classVars, clickVars, quitCalls, screenshot_b64, result>>

\* ------------------------------------------------------------- navigation
LastTryMutant(n) == n = tries - 1

\* "if attempt == tries", line 290.
LastTry(n) == n = tries

\* time.sleep(1.5 * attempt), line 292, in tenths of a second.
Backoff(n) == 15 * n

\* Lines 282-292: driver.get with retries; the last failure is re-raised.
\* counted: a failed attempt is charged to the event budget.
NavStep(a, counted) ==
    /\ pc = "nav"
    /\ events' = IF counted THEN F(a) ELSE events
    /\ IF a = "ok"
       THEN /\ logs' = Append(logs, L("Opened affordablehousing.com (via driver.get)"))
            /\ pc' = "signin"
            /\ step' = 1
            /\ UNCHANGED <<attempt, slept, exc>>
       ELSE /\ logs' = Append(logs, LN("driver.get attempt failed", attempt))
            /\ IF LastTry(attempt)
               THEN Raise("Message: page load failed") /\ UNCHANGED <<attempt, slept>>
               ELSE /\ attempt' = attempt + 1
                    /\ slept' = Append(slept, Backoff(attempt))
                    /\ UNCHANGED <<pc, exc>>
            /\ UNCHANGED step
    /\ UNCHANGED <<num_buttons, envVars, scrollVars, pollVars, classVars,
                   clickVars, drvVars, screenshot_b64, result>>

\* Navigation inside a whole job: attempts fail while the event budget lasts.
NavAttempt(a) == NavStep(a, TRUE)

\* The log line that follows each wait of the sign-in sequence.
SignInLog(k) ==
    CASE k = 1 -> "Clicked homepage Sign In"
      [] k = 2 -> "Entered email"
      [] k = 3 -> "Clicked first Sign In button"
      [] k = 4 -> "Entered password"
      [] k = 5 -> "Clicked final Sign In button"
      [] OTHER -> "Login confirmed (dashboard)"

SignInStepSkipsGate(a) ==
    /\ pc = "signin"
    /\ events' = F(a)
    /\ IF a = "ok" \/ step = SignInSteps
       THEN /\ logs' = IF a = "ok" THEN Append(logs, L(SignInLog(step))) ELSE logs
            /\ IF step = SignInSteps
               THEN pc' = "listing" /\ UNCHANGED step
               ELSE step' = step + 1 /\ UNCHANGED pc
            /\ UNCHANGED exc
       ELSE /\ Raise("Message: timeout")
            /\ UNCHANGED <<logs, step>>
    /\ UNCHANGED <<num_buttons, envVars, attempt, slept, scrollVars, pollVars,
                   classVars, clickVars, drvVars, screenshot_b64, result>>

\* Lines 294-314: each wait.until(...) and the action on its element; a
\* timeout or an element error is not caught here.
SignInStep(a) ==
    /\ pc = "signin"
    /\ events' = F(a)
    /\ IF a = "ok"
       THEN /\ logs' = Append(logs, L(SignInLog(step)))
            /\ IF step = SignInSteps
               THEN pc' = "listing" /\ UNCHANGED step
               ELSE step' = step + 1 /\ UNCHANGED pc
            /\ UNCHANGED exc
       ELSE /\ Raise("Message: timeout")
            /\ UNCHANGED <<logs, step>>
    /\ UNCHANGED <<num_buttons, envVars, attempt, slept, scrollVars, pollVars,
                   classVars, clickVars, drvVars, screenshot_b64, result>>

\* Lines 316-318: driver.get(listing_url).
OpenListing(a) ==
    /\ pc = "listing"
    /\ events' = F(a)
    /\ IF a = "ok"
       THEN /\ logs' = Append(logs, L("Navigated to listing_url"))
            /\ pc' = "scroll_start"
            /\ UNCHANGED exc
       ELSE Raise("Message: page load failed") /\ UNCHANGED logs
    /\ UNCHANGED <<num_buttons, envVars, navVars, scrollVars, pollVars,
                   classVars, clickVars, drvVars, screenshot_b64, result>>

\* ---------------------------------------------------------------- scrolling
\* Lines 320-321: loops = 0 and the first height measurement.
ScrollStart(a) ==
    /\ pc = "scroll_start"
    /\ events' = F(a)
    /\ IF a = "ok"
       THEN /\ loops' = 0
            /\ last_height' = 1
            /\ pc' = "scroll"
            /\ UNCHANGED exc
       ELSE Raise("Message: javascript error") /\ UNCHANGED scrollVars
    /\ UNCHANGED <<num_buttons, envVars, logs, navVars, pollVars, classVars,
                   clickVars, drvVars, screenshot_b64, result>>

\* The heights the page may report next: unchanged, or grown by lazy loading.
NextHeights == {last_height} \cup (IF CanHappen THEN {last_height + 1} ELSE {})

SameHeightMutant(new_height, last) == FALSE

\* "if new_height == last_height", line 327.
SameHeight(new_height, last) == new_height = last

\* Lines 322-331: one evaluation of the while test and, when it holds, one
\* pass through the body; the loop's exit appends the "Finished" line and
\* line 333 starts the poll's clock.  counted: a growth of the page is charged
\* to the event budget.
ScrollStep(a, new_height, counted) ==
    /\ pc = "scroll"
    /\ IF loops < DEFAULT_MAX_SCROLL_LOOPS
       THEN /\ IF a = "ok"
               THEN /\ loops' = loops + 1
                    /\ events' = IF new_height = last_height \/ ~counted THEN events ELSE events + 1
                    /\ IF SameHeight(new_height, last_height)
                       THEN /\ logs' = Append(logs, LN("Finished incremental scrolling", loops + 1))
                            /\ pc' = "poll"
                            /\ UNCHANGED last_height
                       ELSE /\ last_height' = new_height
                            /\ UNCHANGED <<logs, pc>>
                    /\ UNCHANGED exc
               ELSE /\ Raise("Message: javascript error")
                    /\ new_height = last_height
                    /\ events' = events + 1
                    /\ UNCHANGED <<scrollVars, logs>>
       ELSE /\ a = "ok" /\ new_height = last_height
            /\ logs' = Append(logs, LN("Finished incremental scrolling", loops))
            /\ pc' = "poll"
            /\ UNCHANGED <<scrollVars, exc, events>>
    /\ UNCHANGED <<num_buttons, envVars, navVars, pollVars, classVars,
                   clickVars, drvVars, screenshot_b64, result>>

\* The scroll loop inside a whole job: the page grows only while the event
\* budget lasts.
ScrollLoop(a, new_height) == ScrollStep(a, new_height, TRUE)

\* ------------------------------------------------------------------ polling
\* The counts the poll may read: an empty reading is an event.
Readings == (IF CanHappen THEN {0} ELSE {}) \cup 1..MaxElems

PositiveMutant(c) == c >= 0

\* "if c_buttons > 0", line 340.
Positive(c) == c > 0

\* Lines 336-344: one evaluation of the while test and, when it holds, one
\* reading c of the element count.  late: the deadline has passed when the
\* sleep after an empty reading returns.  counted: an empty reading is
\* charged to the event budget.
PollStep(a, c, late, counted) ==
    /\ pc = "poll"
    /\ IF ~expired
       THEN IF a = "ok"
            THEN /\ logs' = Append(logs, LN("[JS POLL] buttons", c))
                 /\ polls' = polls + 1
                 /\ IF Positive(c)
                    THEN /\ found_context' = Some("main")
                         /\ found_count' = c
                         /\ pc' = "poll_result"
                         /\ late = FALSE
                         /\ UNCHANGED <<expired, events>>
                    ELSE /\ expired' = late
                         /\ events' = IF counted THEN events + 1 ELSE events
                         /\ UNCHANGED <<found_context, found_count, pc>>
                 /\ UNCHANGED exc
            ELSE /\ Raise("Message: javascript error")
                 /\ c = 1 /\ late = FALSE
                 /\ events' = events + 1
                 /\ UNCHANGED <<pollVars, logs>>
       ELSE /\ a = "ok" /\ c = 1 /\ late = FALSE
            /\ pc' = "poll_result"
            /\ UNCHANGED <<pollVars, logs, exc, events>>
    /\ UNCHANGED <<num_buttons, envVars, navVars, scrollVars, classVars,
                   clickVars, drvVars, screenshot_b64, result>>

\* The poll inside a whole job: empty readings last while the event budget
\* lasts.
PollLoop(a, c, late) == PollStep(a, c, late, TRUE)

PollResultNoEvidence(a) ==
    /\ pc = "poll_result"
    /\ a = "ok"
    /\ logs' = Append(logs, LN("[JS POLL RESULT] found_count", found_count))
    /\ IF found_context = None
       THEN Raise("No listing cards/buttons found after JS polling")
       ELSE pc' = "collect" /\ UNCHANGED exc
    /\ UNCHANGED <<num_buttons, envVars, navVars, scrollVars, pollVars,
                   classVars, clickVars, drvVars, screenshot_b64, result, events>>

\* Lines 346-353: the poll's result line; nothing found is fatal after a
\* screenshot attempt.
PollResult(a) ==
    /\ pc = "poll_result"
    /\ IF found_context = None
       THEN /\ events' = F(a)
            /\ screenshot_b64' = IF a = "ok" THEN Some("png") ELSE screenshot_b64
            /\ logs' = logs \o <<LN("[JS POLL RESULT] found_count", found_count),
                                 L(IF a = "ok" THEN "No cards/buttons found - saved screenshot"
                                               ELSE "Screenshot failed")>>
            /\ Raise("No listing cards/buttons found after JS polling")
       ELSE /\ a = "ok"
            /\ logs' = Append(logs, LN("[JS POLL RESULT] found_count", found_count))
            /\ pc' = "collect"
            /\ UNCHANGED <<screenshot_b64, exc, events>>
    /\ UNCHANGED <<num_buttons, envVars, navVars, scrollVars, pollVars,
                   classVars, clickVars, drvVars, result>>

\* --------------------------------------------------------- classification
\* Lines 355-356: find_elements; the page answers with the elements the poll
\* counted.
CollectButtons(a, page) ==
    /\ pc = "collect"
    /\ events' = F(a)
    /\ IF a = "ok"
       THEN /\ Len(page) = found_count
            /\ buttons' = page
            /\ logs' = Append(logs, LN("Collected button elements", Len(page)))
            /\ boostable' = <<>>
            /\ idx' = 1
            /\ pc' = "classify"
            /\ UNCHANGED exc
       ELSE /\ page = <<>>
            /\ Raise("Message: no such window")
            /\ UNCHANGED <<classVars, logs>>
    /\ UNCHANGED <<num_buttons, envVars, navVars, scrollVars, pollVars,
                   clickVars, drvVars, screenshot_b64, result>>

\* ------------------------------------------------ find_address_for_button
\* What the page holds around a button: for each of the three ancestor
\* XPaths of lines 126-128, in that order, whether the ancestor exists (anc),
\* whether it has an address element (addr_el) and that element's inner text;
\* and the same for the nearest preceding address element (lines 140-141),
\* which needs no ancestor.
\* Lines 131-136 and 140-144 for one lookup: find_element raises when the
\* element is missing, which the except clause turns into "no label"; the text
\* is read by get_element_text_via_js, which strips it.
LookupLabel(look) ==
    IF look.anc /\ look.addr_el THEN Strip(look.text) ELSE <<>>

find_address_first_found(dom) ==
    CASE dom.ancestors[1].anc /\ dom.ancestors[1].addr_el -> Some(LookupLabel(dom.ancestors[1]))
      [] dom.ancestors[2].anc /\ dom.ancestors[2].addr_el -> Some(LookupLabel(dom.ancestors[2]))
      [] dom.ancestors[3].anc /\ dom.ancestors[3].addr_el -> Some(LookupLabel(dom.ancestors[3]))
      [] dom.preceding.addr_el -> Some(LookupLabel(dom.preceding))
      [] OTHER -> None

\* Lines 123-149: the loop over the ancestor XPaths returns the first
\* non-empty label ("if addr: return addr"); then the preceding element; then
\* None.
find_address_for_button(dom) ==
    LET hits == {k \in 1..Len(dom.ancestors) : LookupLabel(dom.ancestors[k]) # <<>>}
    IN  IF hits # {}
        THEN Some(LookupLabel(dom.ancestors[CHOOSE k \in hits : \A j \in hits : k <= j]))
        ELSE IF LookupLabel(dom.preceding) # <<>>
        THEN Some(LookupLabel(dom.preceding))
        ELSE None

\* find_address_for_button as the whole job sees it: a label, or None; it
\* never raises.
AddressAnswers(k) == {None, Some(k)}

\* Lines 360-372, one element: text read (a failed script reads ""), class
\* read (attr = "fail": get_attribute raises, caught at line 371), the test,
\* the address lookup for a boostable element.
InspectButton(textOk, attr, address) ==
    /\ pc = "classify"
    /\ idx <= Len(buttons)
    /\ events + (IF textOk THEN 0 ELSE 1) + (IF attr = "ok" THEN 0 ELSE 1) <= MaxEvents
    /\ events' = events + (IF textOk THEN 0 ELSE 1) + (IF attr = "ok" THEN 0 ELSE 1)
    /\ \E btn_text \in {get_element_text_via_js(buttons[idx].text, textOk)} :
       \E norm \in {NormText(btn_text)}, classes \in {ClassString(ClassOf(buttons[idx].cls))} :
          IF attr # "ok"
          THEN /\ address = None
               /\ logs' = Append(logs, LN("[WARN] error inspecting btn", idx))
               /\ UNCHANGED boostable
          ELSE IF IsBoostable(classes, norm)
          THEN /\ boostable' = Append(boostable, [address |-> address, btn |-> idx])
               /\ logs' = Append(logs, LN("[FOUND] btn", idx))
          ELSE /\ address = None
               /\ logs' = Append(logs, LN(IF InProgress(classes, norm)
                                          THEN "[SKIP] btn in_progress=True"
                                          ELSE "[SKIP] btn in_progress=False", idx))
               /\ UNCHANGED boostable
    /\ idx' = idx + 1
    /\ UNCHANGED <<pc, num_buttons, envVars, navVars, scrollVars, pollVars,
                   buttons, clickVars, drvVars, screenshot_b64, exc, result>>

ToClickMutant(n, m) == m

\* to_click = min(num_buttons, len(boostable)), line 383.
ToClick(n, m) == IF n < m THEN n ELSE m

\* Lines 374-384, after the last element: an empty list is fatal after a
\* screenshot attempt; otherwise the click loop is set up.
ClassifyDone(a) ==
    /\ pc = "classify"
    /\ idx > Len(buttons)
    /\ IF boostable = <<>>
       THEN /\ events' = F(a)
            /\ screenshot_b64' = IF a = "ok" THEN Some("png") ELSE screenshot_b64
            /\ logs' = logs \o <<LN("Total boostable detected", 0),
                                 L(IF a = "ok" THEN "No boostable buttons after filtering - saved screenshot"
                                               ELSE "screenshot failed")>>
            /\ Raise("No boostable buttons found to click")
            /\ UNCHANGED clickVars
       ELSE /\ a = "ok"
            /\ logs' = Append(logs, LN("Total boostable detected", Len(boostable)))
            /\ to_click' = ToClick(num_buttons, Len(boostable))
            /\ clicked' = 0
            /\ i' = 0
            /\ pc' = "click"
            /\ UNCHANGED <<clicked_addresses, attempted, screenshot_b64, exc, events>>
    /\ UNCHANGED <<num_buttons, envVars, navVars, scrollVars, pollVars,
                   classVars, drvVars, result>>

\* ------------------------------------------------------------------ clicking
\* What the worker tries on one element, lines 388-390: a scripted
\* scrollIntoView followed by a scripted click, inside one try.
ClickStrategies == <<"scripted click">>

\* A failed click that appends its label all the same.
ClickBoostLabelsAll(a) ==
    /\ pc = "click"
    /\ i < to_click
    /\ events' = F(a)
    /\ attempted' = Append(attempted, [btn |-> boostable[i + 1].btn, ok |-> (a = "ok"), by |-> ClickStrategies])
    /\ clicked_addresses' = Append(clicked_addresses, boostable[i + 1].address)
    /\ IF a = "ok"
       THEN /\ clicked' = clicked + 1
            /\ logs' = Append(logs, LN("Clicked boost for", boostable[i + 1].btn))
       ELSE /\ logs' = Append(logs, LN("Error clicking boost", i + 1))
            /\ UNCHANGED clicked
    /\ i' = i + 1
    /\ UNCHANGED <<pc, num_buttons, envVars, navVars, scrollVars, pollVars,
                   classVars, to_click, drvVars, screenshot_b64, exc, result>>

\* A failed click that is not caught in the loop.
ClickBoostAborts(a) ==
    /\ pc = "click"
    /\ i < to_click
    /\ events' = F(a)
    /\ attempted' = Append(attempted, [btn |-> boostable[i + 1].btn, ok |-> (a = "ok"), by |-> ClickStrategies])
    /\ IF a = "ok"
       THEN /\ clicked' = clicked + 1
            /\ clicked_addresses' = Append(clicked_addresses, boostable[i + 1].address)
            /\ logs' = Append(logs, LN("Clicked boost for", boostable[i + 1].btn))
            /\ UNCHANGED <<pc, exc>>
       ELSE /\ Raise("Message: element click intercepted")
            /\ UNCHANGED <<clicked, clicked_addresses, logs>>
    /\ i' = i + 1
    /\ UNCHANGED <<num_buttons, envVars, navVars, scrollVars, pollVars,
                   classVars, to_click, drvVars, screenshot_b64, result>>

\* Lines 385-396, one pass of "for i in range(to_click)": scroll into view
\* and scripted click of boostable[i]; an exception of either script is
\* caught and logged.
ClickBoost(a) ==
    /\ pc = "click"
    /\ i < to_click
    /\ events' = F(a)
    /\ attempted' = Append(attempted, [btn |-> boostable[i + 1].btn, ok |-> (a = "ok"), by |-> ClickStrategies])
    /\ IF a = "ok"
       THEN /\ clicked' = clicked + 1
            /\ clicked_addresses' = Append(clicked_addresses, boostable[i + 1].address)
            /\ logs' = Append(logs, LN("Clicked boost for", boostable[i + 1].btn))
       ELSE /\ logs' = Append(logs, LN("Error clicking boost", i + 1))
            /\ UNCHANGED <<clicked, clicked_addresses>>
    /\ i' = i + 1
    /\ UNCHANGED <<pc, num_buttons, envVars, navVars, scrollVars, pollVars,
                   classVars, to_click, drvVars, screenshot_b64, exc, result>>

\* class BoostResponse, lines 49-55.
BoostResponse(ok, count, addresses, lg, err, shot) ==
    [success |-> ok, clicked_count |-> count, clicked_addresses |-> addresses,
     debug_logs |-> lg, error |-> err, screenshot_base64 |-> shot]

\* A success response that counts the clicks tried instead of "clicked".
ReturnSuccessCountsTried ==
    /\ pc = "click"
    /\ i >= to_click
    /\ result' = Some(BoostResponse(TRUE, i, clicked_addresses, logs, None, screenshot_b64))
    /\ pc' = "finally"
    /\ UNCHANGED <<num_buttons, envVars, logs, navVars, scrollVars, pollVars,
                   classVars, clickVars, drvVars, screenshot_b64, exc, events>>

\* Lines 398-405: the loop is over, the success response is built.
ReturnSuccess ==
    /\ pc = "click"
    /\ i >= to_click
    /\ result' = Some(BoostResponse(TRUE, clicked, clicked_addresses, logs, None, screenshot_b64))
    /\ pc' = "finally"
    /\ UNCHANGED <<num_buttons, envVars, logs, navVars, scrollVars, pollVars,
                   classVars, clickVars, drvVars, screenshot_b64, exc, events>>

\* ------------------------------------------------------- except and finally
FailureResponseMutant(lg, msg, shot) ==
    BoostResponse(FALSE, 0, <<>>, <<L("Unhandled exception"), L("traceback")>>, Some(msg), shot)

\* Lines 418-425: the failure response.
FailureResponse(lg, msg, shot) ==
    BoostResponse(FALSE, 0, <<>>, lg, Some(msg), shot)

\* Lines 407-425: "except Exception": two log lines, a screenshot when there
\* is a driver (its failure is swallowed), the failure response.
ExceptHandler(a) ==
    /\ pc = "except"
    /\ LET lg == logs \o <<L("Unhandled exception"), L("traceback")>>
           shot == driver = "open" /\ a = "ok"
           lg2 == IF shot THEN Append(lg, L("Captured error screenshot (base64)")) ELSE lg
           sb == IF shot THEN Some("png") ELSE screenshot_b64
       IN /\ IF driver = "open" THEN events' = F(a) ELSE a = "ok" /\ UNCHANGED events
          /\ logs' = lg2
          /\ screenshot_b64' = sb
          /\ result' = Some(FailureResponse(lg2, exc[1], sb))
    /\ pc' = "finally"
    /\ UNCHANGED <<num_buttons, envVars, navVars, scrollVars, pollVars,
                   classVars, clickVars, drvVars, exc>>

ReleaseNeededMutant == driver = "open" /\ result[1].success

\* "if driver:", line 429.
ReleaseNeeded == driver = "open"

\* Lines 427-433: "finally": driver.quit() when there is a driver; its
\* failure is swallowed.  Then the function returns result.
Finally(a) ==
    /\ pc = "finally"
    /\ IF ReleaseNeeded
       THEN /\ events' = F(a)
            /\ quitCalls' = quitCalls + 1
            /\ driver' = "quit"
            /\ logs' = IF a = "ok" THEN Append(logs, L("Driver.quit() called")) ELSE logs
       ELSE /\ a = "ok"
            /\ UNCHANGED <<drvVars, logs, events>>
    /\ pc' = "done"
    /\ UNCHANGED <<num_buttons, envVars, navVars, scrollVars, pollVars,
                   classVars, clickVars, screenshot_b64, exc, result>>

\* ------------------------------------------------------------ specification
Next ==
    \/ \E n \in RequestedCounts : boost_endpoint(n)
    \/ \E n \in RequestedCounts : DirectCall(n)
    \/ \E skip \in BOOLEAN, head \in HeadAnswers : PrecheckHead(skip, head)
    \/ \E a \in Answers : PrecheckGet(a)
    \/ \E found \in BOOLEAN : FindBinaries(found)
    \/ \E a \in Answers : AcquireDriver(a)
    \/ \E a \in Answers : NavAttempt(a)
    \/ \E a \in Answers : SignInStep(a)
    \/ \E a \in Answers : OpenListing(a)
    \/ \E a \in Answers : ScrollStart(a)
    \/ \E a \in Answers, h \in NextHeights : ScrollLoop(a, h)
    \/ \E a \in Answers, c \in Readings, late \in BOOLEAN : PollLoop(a, c, late)
    \/ \E a \in Answers : PollResult(a)
    \/ \E a \in Answers, page \in Pages : CollectButtons(a, page)
    \/ \E textOk \in BOOLEAN, attr \in {"ok", "fail"}, address \in AddressAnswers(idx) :
          InspectButton(textOk, attr, address)
    \/ \E a \in Answers : ClassifyDone(a)
    \/ \E a \in Answers : ClickBoost(a)
    \/ ReturnSuccess
    \/ \E a \in Answers : ExceptHandler(a)
    \/ \E a \in Answers : Finally(a)

Spec == Init /\ [][Next]_vars

\* The worker runs on an executor thread that is always scheduled: a step
\* that can be taken is eventually taken.
LiveSpec == Spec /\ WF_vars(Next)

\* A job up to the acquisition of its driver, or to its end when it fails
\* before; with and without a proxy configured.
PrecheckInit == \E proxy \in BOOLEAN : InitWith(proxy)

NextPrecheck ==
    \/ \E n \in RequestedCounts : boost_endpoint(n)
    \/ \E n \in RequestedCounts : DirectCall(n)
    \/ \E skip \in BOOLEAN, head \in HeadAnswers : PrecheckHead(skip, head)
    \/ \E a \in Answers : PrecheckGet(a)
    \/ \E found \in BOOLEAN : FindBinaries(found)
    \/ \E a \in Answers : AcquireDriver(a)
    \/ \E a \in Answers : ExceptHandler(a)
    \/ \E a \in Answers : Finally(a)

SpecPrecheck == PrecheckInit /\ [][NextPrecheck]_vars

\* The jobs of a process that has HTTPS_PROXY or HTTP_PROXY set.
ProxyInit == InitWith(TRUE)
SpecProxy == ProxyInit /\ [][Next]_vars

\* The classification loop on its own, from the state in which a job without
\* any event so far has just collected the buttons of a page (line 356).
LogsAtCollect(c) ==
    <<L("Starting Selenium worker"), L("Connectivity quick-check"), L("HEAD status_code"),
      L("Detected chrome binary"), L("Detected chromedriver binary"),
      L("Opened affordablehousing.com (via driver.get)"),
      L(SignInLog(1)), L(SignInLog(2)), L(SignInLog(3)), L(SignInLog(4)), L(SignInLog(5)), L(SignInLog(6)),
      L("Navigated to listing_url"), LN("Finished incremental scrolling", 1),
      LN("[JS POLL] buttons", c), LN("[JS POLL RESULT] found_count", c),
      LN("Collected button elements", c)>>

ClassifyInit ==
    /\ pc = "classify"
    /\ num_buttons \in RequestedCounts
    /\ skip_check = FALSE
    /\ proxy_env = FALSE
    /\ opener = "default"
    /\ buttons \in {page \in AllPages : Len(page) >= 1}
    /\ logs = LogsAtCollect(Len(buttons))
    /\ driver = "open"
    /\ quitCalls = 0
    /\ attempt = 1
    /\ slept = <<>>
    /\ step = SignInSteps
    /\ loops = 1
    /\ last_height = 1
    /\ polls = 1
    /\ expired = FALSE
    /\ found_count = Len(buttons)
    /\ found_context = Some("main")
    /\ idx = 1
    /\ boostable = <<>>
    /\ to_click = 0
    /\ i = 0
    /\ clicked = 0
    /\ clicked_addresses = <<>>
    /\ attempted = <<>>
    /\ screenshot_b64 = None
    /\ exc = None
    /\ result = None
    /\ events = 0

NextClassify ==
    \/ \E textOk \in BOOLEAN, attr \in {"ok", "fail"}, address \in AddressAnswers(idx) :
          InspectButton(textOk, attr, address)
    \/ \E a \in Answers : ClassifyDone(a)

SpecClassify == ClassifyInit /\ [][NextClassify]_vars

\* ClassifyInit is a state of a whole job whenever the page is one of Pages.
ClassifyInitReached ==
    /\ pc = "classify" /\ idx = 1 /\ events = 0 /\ num_buttons = 1
    /\ Len(buttons) = MaxElems
    /\ logs = LogsAtCollect(Len(buttons))
    /\ <<skip_check, driver, quitCalls, attempt, step, loops, last_height, polls,
         expired, found_count, found_context, boostable, to_click, i, clicked,
         clicked_addresses, attempted, screenshot_b64, exc, result>>
       = <<FALSE, "open", 0, 1, SignInSteps, 1, 1, 1, FALSE, Len(buttons), Some("main"),
           <<>>, 0, 0, 0, <<>>, <<>>, None, None, None>>

\* The scroll loop on its own, from the state in which a job without any
\* event so far has just opened the listing page (line 318); here the page may
\* grow at every iteration, so that the cap of line 322 is met.
LogsAtListing ==
    <<L("Starting Selenium worker"), L("Connectivity quick-check"), L("HEAD status_code"),
      L("Detected chrome binary"), L("Detected chromedriver binary"),
      L("Opened affordablehousing.com (via driver.get)"),
      L(SignInLog(1)), L(SignInLog(2)), L(SignInLog(3)), L(SignInLog(4)), L(SignInLog(5)), L(SignInLog(6)),
      L("Navigated to listing_url")>>

ScrollInit ==
    /\ pc = "scroll_start"
    /\ num_buttons \in RequestedCounts
    /\ skip_check = FALSE
    /\ proxy_env = FALSE
    /\ opener = "default"
    /\ logs = LogsAtListing
    /\ driver = "open"
    /\ quitCalls = 0
    /\ attempt = 1
    /\ slept = <<>>
    /\ step = SignInSteps
    /\ loops = 0
    /\ last_height = 0
    /\ polls = 0
    /\ expired = FALSE
    /\ found_count = 0
    /\ found_context = None
    /\ buttons = <<>>
    /\ idx = 0
    /\ boostable = <<>>
    /\ to_click = 0
    /\ i = 0
    /\ clicked = 0
    /\ clicked_addresses = <<>>
    /\ attempted = <<>>
    /\ screenshot_b64 = None
    /\ exc = None
    /\ result = None
    /\ events = 0

NextScroll ==
    \/ \E a \in Answers : ScrollStart(a)
    \/ \E a \in Answers, h \in {last_height, last_height + 1} : ScrollStep(a, h, FALSE)

SpecScroll == ScrollInit /\ [][NextScroll]_vars

\* ScrollInit is a state of a whole job.
ScrollInitReached ==
    /\ pc = "scroll_start" /\ num_buttons = 1 /\ logs = LogsAtListing
    /\ <<skip_check, driver, quitCalls, attempt, step, loops, last_height, polls,
         expired, found_count, found_context, buttons, idx, boostable, to_click, i,
         clicked, clicked_addresses, attempted, screenshot_b64, exc, result, events>>
       = <<FALSE, "open", 0, 1, SignInSteps, 0, 0, 0, FALSE, 0, None, <<>>, 0, <<>>, 0, 0,
           0, <<>>, <<>>, None, None, None, 0>>

\* The poll on its own, from the state in which a job without any event so
\* far has just left the scroll loop (line 333); here the probe may read 0 at
\* every poll until the deadline, which passes after MaxPolls readings at the
\* latest.
PollInit ==
    /\ pc = "poll"
    /\ num_buttons \in RequestedCounts
    /\ skip_check = FALSE
    /\ proxy_env = FALSE
    /\ opener = "default"
    /\ logs = Append(LogsAtListing, LN("Finished incremental scrolling", 1))
    /\ driver = "open"
    /\ quitCalls = 0
    /\ attempt = 1
    /\ slept = <<>>
    /\ step = SignInSteps
    /\ loops = 1
    /\ last_height = 1
    /\ polls = 0
    /\ expired = FALSE
    /\ found_count = 0
    /\ found_context = None
    /\ buttons = <<>>
    /\ idx = 0
    /\ boostable = <<>>
    /\ to_click = 0
    /\ i = 0
    /\ clicked = 0
    /\ clicked_addresses = <<>>
    /\ attempted = <<>>
    /\ screenshot_b64 = None
    /\ exc = None
    /\ result = None
    /\ events = 0

NextPoll ==
    \/ \E a \in Answers, c \in 0..MaxElems, late \in BOOLEAN :
          /\ polls + 1 < MaxPolls \/ late \/ c > 0
          /\ PollStep(a, c, late, FALSE)
    \/ \E a \in Answers : PollResult(a)

SpecPoll == PollInit /\ [][NextPoll]_vars

\* PollInit is a state of a whole job.
PollInitReached ==
    /\ pc = "poll" /\ num_buttons = 1 /\ polls = 0 /\ events = 0 /\ ~expired
    /\ logs = Append(LogsAtListing, LN("Finished incremental scrolling", 1))
    /\ loops = 1 /\ last_height = 1 /\ driver = "open" /\ exc = None

\* Navigation on its own, from the state in which a job without any event
\* so far has just acquired its driver (line 279), up to the end of the job or
\* of the sign-in sequence; here every attempt may fail, so that the retries
\* are exhausted.
NavInit ==
    /\ pc = "nav"
    /\ num_buttons \in RequestedCounts
    /\ skip_check = FALSE
    /\ proxy_env = FALSE
    /\ opener = "default"
    /\ logs = <<L("Starting Selenium worker"), L("Connectivity quick-check"), L("HEAD status_code"),
                L("Detected chrome binary"), L("Detected chromedriver binary")>>
    /\ driver = "open"
    /\ quitCalls = 0
    /\ attempt = 1
    /\ slept = <<>>
    /\ step = 0
    /\ loops = 0
    /\ last_height = 0
    /\ polls = 0
    /\ expired = FALSE
    /\ found_count = 0
    /\ found_context = None
    /\ buttons = <<>>
    /\ idx = 0
    /\ boostable = <<>>
    /\ to_click = 0
    /\ i = 0
    /\ clicked = 0
    /\ clicked_addresses = <<>>
    /\ attempted = <<>>
    /\ screenshot_b64 = None
    /\ exc = None
    /\ result = None
    /\ events = 0

NextNav ==
    \/ \E a \in {"ok", "fail"} : NavStep(a, FALSE)
    \/ \E a \in Answers : SignInStep(a)
    \/ \E a \in Answers : ExceptHandler(a)
    \/ \E a \in Answers : Finally(a)

SpecNav == NavInit /\ [][NextNav]_vars

\* NavInit is a state of a whole job.
NavInitReached ==
    /\ pc = "nav" /\ num_buttons = 1 /\ events = 0 /\ attempt = 1 /\ slept = <<>>
    /\ driver = "open" /\ exc = None /\ ~skip_check /\ Len(logs) = 5

\* Context resolution on its own: a job without any event so far has just
\* collected one "Boost this listing" button (line 356), and the page around
\* the button is any of Doms; the job is followed to its end.
LookupOutcomes(label) ==
    {[anc |-> FALSE, addr_el |-> FALSE, text |-> <<>>],
     [anc |-> TRUE, addr_el |-> FALSE, text |-> <<>>],
     [anc |-> TRUE, addr_el |-> TRUE, text |-> <<>>],
     [anc |-> TRUE, addr_el |-> TRUE, text |-> <<" ">>],
     [anc |-> TRUE, addr_el |-> TRUE, text |-> <<" ", label, " ">>]}
Doms ==
    {[ancestors |-> <<a1, a2, a3>>, preceding |-> pr] :
        a1 \in LookupOutcomes("A"), a2 \in LookupOutcomes("B"), a3 \in LookupOutcomes("C"),
        pr \in {o \in LookupOutcomes("P") : o.anc}}

AddressInit ==
    /\ pc = "classify"
    /\ num_buttons = 1
    /\ skip_check = FALSE
    /\ proxy_env = FALSE
    /\ opener = "default"
    /\ buttons \in {<<[text |-> 1, cls |-> 1, dom |-> d]>> : d \in Doms}
    /\ logs = LogsAtCollect(1)
    /\ driver = "open"
    /\ quitCalls = 0
    /\ attempt = 1
    /\ slept = <<>>
    /\ step = SignInSteps
    /\ loops = 1
    /\ last_height = 1
    /\ polls = 1
    /\ expired = FALSE
    /\ found_count = 1
    /\ found_context = Some("main")
    /\ idx = 1
    /\ boostable = <<>>
    /\ to_click = 0
    /\ i = 0
    /\ clicked = 0
    /\ clicked_addresses = <<>>
    /\ attempted = <<>>
    /\ screenshot_b64 = None
    /\ exc = None
    /\ result = None
    /\ events = 0

\* Lines 360-368 for a button whose text and class are read: the address is
\* what find_address_for_button returns on the page around it.
InspectWithAddress ==
    /\ idx <= Len(buttons)
    /\ InspectButton(TRUE, "ok", find_address_for_button(buttons[idx].dom))

NextAddress ==
    \/ InspectWithAddress
    \/ \E a \in Answers : ClassifyDone(a)
    \/ \E a \in Answers : ClickBoost(a)
    \/ ReturnSuccess
    \/ \E a \in Answers : Finally(a)

SpecAddress == AddressInit /\ [][NextAddress]_vars

\* ------------------------------------------------------------- properties
Returned == result # None
Res == result[1]
IsPrefix(s, t) == Len(s) <= Len(t) /\ SubSeq(t, 1, Len(s)) = s

\* The positions of attempted whose click went through, in order.
OkAttempts == SelectSeq([k \in 1..Len(attempted) |-> k], LAMBDA k : attempted[k].ok)
FailedAttempts == SelectSeq([k \in 1..Len(attempted) |-> k], LAMBDA k : ~attempted[k].ok)
\* The labels resolved for the elements whose click went through, in order.
OkLabels == [j \in 1..Len(OkAttempts) |-> boostable[OkAttempts[j]].address]

(* C1: in every returned Job Result, clicked_count is at most the requested
   count num_buttons and at most the size of the Boostable Set. *)
C1_CountWithinRequestAndSet ==
    Returned => /\ Res.clicked_count <= num_buttons
                /\ Res.clicked_count <= Len(boostable)

(* C2: the session is released exactly once: quit() has been called once
   exactly when the driver is released, zero times otherwise (in particular
   when no driver was acquired); a job that ends holds no open session, and a
   released session is only seen at the end of the job. *)
C2_SessionReleasedOnce ==
    /\ quitCalls = (IF driver = "quit" THEN 1 ELSE 0)
    /\ pc = "done" => driver # "open"
    /\ driver = "quit" => pc = "done"

\* A job failed after it had acquired its session, and released it.
C2_Witness ==
    /\ pc = "done" /\ driver = "quit" /\ quitCalls = 1
    /\ ~Res.success

(* C3: once an exception reached the worker's handler, the result is
   success=false with clicked_count 0, no labels and the exception's
   non-empty message as error; and the handler's result carries every log
   entry appended before the failure, in the same order. *)
C3_FailureResult ==
    /\ [](exc # None /\ pc \in {"finally", "done"} =>
            /\ Returned
            /\ ~Res.success
            /\ Res.clicked_count = 0
            /\ Res.clicked_addresses = <<>>
            /\ Res.error = exc
            /\ exc[1] # "")
    /\ [][pc = "except" => Returned' /\ IsPrefix(logs, result'[1].debug_logs)]_vars

\* A job failed after the sign-in began: its result carries the log so far.
C3_Witness ==
    /\ pc = "done" /\ exc # None /\ driver = "quit"
    /\ ~Res.success /\ Len(Res.debug_logs) > 8

(* C4: a Job Result has success=true only if at least one boost click was
   attempted and no exception reached the handler. *)
C4_SuccessNeedsAttempt ==
    Returned /\ Res.success => Len(attempted) >= 1 /\ exc = None

(* C5 as claimed: every attempted click, succeeded or failed, has one entry
   in the label sequence of a success result. *)
C5_LabelPerAttempt ==
    Returned /\ Res.success => Len(Res.clicked_addresses) = Len(attempted)

(* C5 as amended: every click that went through has exactly one entry in the
   label sequence, in click order, and a failed click has none: the label
   sequence is the sequence of labels of the clicks that went through. *)
C5_LabelPerSuccessfulClick ==
    /\ clicked_addresses = OkLabels
    /\ Returned /\ Res.success => Res.clicked_addresses = OkLabels

\* A success result after a failed and a successful click: one label.
C5_Witness ==
    /\ pc = "done" /\ Res.success
    /\ Len(attempted) = 2 /\ Len(FailedAttempts) = 1
    /\ Len(Res.clicked_addresses) = 1

\* min(num_buttons, len(boostable)) clicks, none when that is negative.
ExpectedClicks ==
    IF num_buttons < Len(boostable)
    THEN (IF num_buttons < 0 THEN 0 ELSE num_buttons)
    ELSE Len(boostable)
ErrorLines(lg) == Len(SelectSeq(lg, LAMBDA e : e[1] = "Error clicking boost"))

(* C6: a failed click does not abort the job: every candidate is still
   attempted, the job ends with success=true and no error, clicked_count is
   the number of clicks that went through, and each failure is one
   "Error clicking boost" line of the Log. *)
C6_ClickFailureIsolated ==
    /\ FailedAttempts # <<>> /\ pc \in {"finally", "done"} => Returned /\ Res.success
    /\ Returned /\ Res.success =>
          /\ Len(attempted) = ExpectedClicks
          /\ Res.clicked_count = Len(OkAttempts)
          /\ ErrorLines(Res.debug_logs) = Len(FailedAttempts)
          /\ Res.error = None

\* The first of two clicks failed, the second went through: success, count 1.
C6_Witness ==
    /\ pc = "done" /\ Res.success /\ Res.clicked_count = 1
    /\ Len(attempted) = 2 /\ ~attempted[1].ok /\ attempted[2].ok
    /\ ErrorLines(Res.debug_logs) = 1

(* C7: the elements on which a click is attempted are the first
   min(num_buttons, |Boostable Set|) elements of the Boostable Set, in its
   order, which is the DOM order, and none is attempted twice. *)
C7_ClicksAreFirstCandidates ==
    /\ Len(attempted) <= ExpectedClicks
    /\ \A k \in 1..Len(attempted) : attempted[k].btn = boostable[k].btn
    /\ \A j, k \in 1..Len(attempted) : j < k => attempted[j].btn < attempted[k].btn
    /\ Returned /\ Res.success => Len(attempted) = ExpectedClicks

\* One click requested, two boostable elements: only the first is attempted.
C7_Witness ==
    /\ pc = "done" /\ Res.success
    /\ num_buttons = 1 /\ Len(boostable) = 2
    /\ Len(attempted) = 1 /\ attempted[1].btn = boostable[1].btn

(* C8: no job reaches driver acquisition with num_buttons <= 0. *)
C8_NonPositiveRejected ==
    pc = "acquire" \/ driver # "none" => num_buttons >= 1

(* C9: no exception leaves the worker; every job that entered the worker
   ends, and ends with a result that is a success or carries an error, and
   that carries the Log accumulated when it was built. *)
C9_AlwaysReturnsResult ==
    /\ [](pc # "propagated")
    /\ [](pc = "done" =>
            /\ Returned
            /\ Res.success \/ Res.error # None
            /\ IsPrefix(Res.debug_logs, logs)
            /\ Len(logs) <= Len(Res.debug_logs) + 1)
    /\ (pc = "precheck") ~> (pc = "done")

\* A job that met as many faults as the model allows, and returned a failure.
C9_Witness ==
    /\ pc = "done" /\ Returned /\ ~Res.success
    /\ events = MaxEvents /\ Res.error # None

\* What a reader of the page expects of each element of AllElemKinds: texts
\* 1, 2, 3 and 5 say "boost", texts 2 and 5 say "in progress", classes 3 and
\* 4 carry the in-progress marker.
ExpectInProgress(el) == el.text \in {2, 5} \/ el.cls \in {3, 4}
ExpectActionable(el) == el.text \in {1, 2, 3, 5} /\ ~ExpectInProgress(el)

(* C10: the Boostable Set holds only elements whose text says "boost" and
   that are not in progress, in DOM order; an element whose text and class
   were both read enters the set iff it is such an element, and is otherwise
   logged as skipped with in_progress as expected. *)
C10_Classification ==
    /\ [](/\ \A k \in 1..Len(boostable) : ExpectActionable(buttons[boostable[k].btn])
          /\ \A j, k \in 1..Len(boostable) : j < k => boostable[j].btn < boostable[k].btn)
    /\ [][pc = "classify" /\ idx' = idx + 1 =>
            /\ boostable' # boostable =>
                  /\ ExpectActionable(buttons[idx])
                  /\ Len(boostable') = Len(boostable) + 1
                  /\ SubSeq(boostable', 1, Len(boostable)) = boostable
                  /\ boostable'[Len(boostable')].btn = idx
            /\ events' = events =>
                  /\ (boostable' # boostable) = ExpectActionable(buttons[idx])
                  /\ boostable' = boostable =>
                        logs'[Len(logs')][1] =
                            (IF ExpectInProgress(buttons[idx])
                             THEN "[SKIP] btn in_progress=True"
                             ELSE "[SKIP] btn in_progress=False")]_vars

\* "Boost in progress" was skipped and "Boost this listing" with an empty
\* class entered the set.
C10_Witness ==
    /\ pc = "classify" /\ idx = 3
    /\ buttons[1] = [text |-> 2, cls |-> 1]
    /\ buttons[2] = [text |-> 1, cls |-> 1]
    /\ Len(boostable) = 1 /\ boostable[1].btn = 2

\* The number that the last log entry formats.
LastLogged(lg) == lg[Len(lg)][2]

(* C11: the scroll loop goes on only after an iteration that measured a
   changed height and only below the cap; it ends at the first iteration that
   measures an unchanged height, or without a further iteration once loops has
   reached DEFAULT_MAX_SCROLL_LOOPS; the count it reports is the number of
   iterations performed and never exceeds the cap. *)
C11_ScrollStops ==
    /\ [](loops <= DEFAULT_MAX_SCROLL_LOOPS)
    /\ [](pc = "scroll" => last_height = loops + 1)
    /\ [][pc = "scroll" /\ pc' = "scroll" =>
            /\ loops < DEFAULT_MAX_SCROLL_LOOPS
            /\ loops' = loops + 1
            /\ last_height' # last_height]_vars
    /\ [][pc = "scroll" /\ pc' = "poll" =>
            /\ \/ loops' = loops + 1 /\ last_height' = last_height
               \/ loops' = loops /\ loops = DEFAULT_MAX_SCROLL_LOOPS
            /\ logs' = Append(logs, LN("Finished incremental scrolling", loops'))
            /\ LastLogged(logs') <= DEFAULT_MAX_SCROLL_LOOPS]_vars

\* Heights 1, 2, 2: the loop ended after 2 iterations and reported 2.
C11_Witness ==
    /\ pc = "poll" /\ loops = 2 /\ last_height = 2
    /\ logs[Len(logs)] = LN("Finished incremental scrolling", 2)

\* The page grew at every iteration: the loop ended at the cap.
C11_CapReached ==
    /\ pc = "poll" /\ loops = DEFAULT_MAX_SCROLL_LOOPS
    /\ last_height = DEFAULT_MAX_SCROLL_LOOPS + 1
    /\ logs[Len(logs)] = LN("Finished incremental scrolling", DEFAULT_MAX_SCROLL_LOOPS)

\* The readings of the poll, as the Log has them, in order.
PollReadings(lg) ==
    LET es == SelectSeq(lg, LAMBDA e : e[1] = "[JS POLL] buttons")
    IN  [k \in 1..Len(es) |-> es[k][2]]

(* C12: the Log has one entry per reading of the poll; no reading follows a
   positive one, so an accepted reading is the first positive one; the poll
   returns found with the count of that reading exactly when its last reading
   is positive, and returns nothing found, after the deadline, when every
   reading was 0. *)
C12_FirstPositiveReading ==
    LET rs == PollReadings(logs)
    IN  /\ Len(rs) = polls
        /\ \A k \in 1..(Len(rs) - 1) : rs[k] = 0
        /\ pc = "poll" => found_context = None /\ \A k \in 1..Len(rs) : rs[k] = 0
        /\ pc = "poll_result" =>
              /\ polls >= 1
              /\ IF rs[polls] > 0
                 THEN found_context # None /\ found_count = rs[polls]
                 ELSE found_context = None /\ found_count = 0 /\ expired
        /\ found_context # None => found_count > 0 /\ found_count = rs[polls]

\* Readings 0, 0, 0, 2: accepted at the 4th poll with count 2.
C12_Witness ==
    /\ pc = "poll_result" /\ polls = 4
    /\ PollReadings(logs) = <<0, 0, 0, 2>>
    /\ found_context # None /\ found_count = 2

\* Every reading before the deadline was 0: nothing found.
C12_NothingFound ==
    /\ pc = "poll_result" /\ expired /\ polls >= 2
    /\ found_context = None /\ found_count = 0

NO_CONTENT == "No listing cards/buttons found after JS polling"
NO_BOOSTABLE == "No boostable buttons found to click"
\* The log lines of the two screenshot attempts that precede those failures.
PollEvidence == {"No cards/buttons found - saved screenshot", "Screenshot failed"}
FilterEvidence == {"No boostable buttons after filtering - saved screenshot", "screenshot failed"}
\* lg has an entry of tags right before the handler's first line.
EvidenceBeforeFailure(lg, tags) ==
    \E k \in 1..(Len(lg) - 1) : lg[k][1] \in tags /\ lg[k + 1][1] = "Unhandled exception"

(* C13: when the poll ends with nothing found, or classification ends with
   an empty Boostable Set, the next step attempts a screenshot (its outcome is
   the last log entry, and a captured screenshot is kept) and raises; no click
   is attempted, and the job ends with success=false, the error description
   of that failure, and the screenshot attempt in its Log before the failure. *)
C13_ContentAbsenceFatal ==
    /\ [][pc = "poll_result" /\ found_context = None =>
            /\ pc' = "except" /\ exc' = Some(NO_CONTENT)
            /\ Len(logs') = Len(logs) + 2
            /\ logs'[Len(logs')][1] \in PollEvidence
            /\ (logs'[Len(logs')][1] = "No cards/buttons found - saved screenshot")
                  = (screenshot_b64' # None)]_vars
    /\ [][pc = "classify" /\ idx > Len(buttons) /\ boostable = <<>> =>
            /\ pc' = "except" /\ exc' = Some(NO_BOOSTABLE)
            /\ Len(logs') = Len(logs) + 2
            /\ logs'[Len(logs')][1] \in FilterEvidence
            /\ (logs'[Len(logs')][1] = "No boostable buttons after filtering - saved screenshot")
                  = (screenshot_b64' # None)]_vars
    /\ [](exc \in {Some(NO_CONTENT), Some(NO_BOOSTABLE)} =>
            /\ attempted = <<>> /\ clicked = 0
            /\ pc \in {"except", "finally", "done"}
            /\ pc \in {"finally", "done"} =>
                  /\ Returned /\ ~Res.success /\ Res.error = exc
                  /\ EvidenceBeforeFailure(Res.debug_logs,
                        IF exc = Some(NO_CONTENT) THEN PollEvidence ELSE FilterEvidence))
    /\ [](pc \in {"finally", "done"} /\ Returned /\ Res.success =>
            found_context # None /\ boostable # <<>>)

\* The poll found nothing before its deadline: a failure result whose Log has
\* the screenshot attempt.
C13_Witness ==
    /\ pc = "done" /\ exc = Some(NO_CONTENT) /\ ~Res.success
    /\ found_context = None /\ expired
    /\ EvidenceBeforeFailure(Res.debug_logs, PollEvidence)

\* Every collected element was skipped: a failure result after a screenshot
\* attempt that itself failed.
C13_EmptySetReached ==
    /\ pc = "done" /\ exc = Some(NO_BOOSTABLE) /\ ~Res.success
    /\ Len(buttons) >= 1 /\ boostable = <<>>
    /\ EvidenceBeforeFailure(Res.debug_logs, {"screenshot failed"})

\* The attempts that failed, as the Log has them, in order.
FailedGets(lg) ==
    LET es == SelectSeq(lg, LAMBDA e : e[1] = "driver.get attempt failed")
    IN  [k \in 1..Len(es) |-> es[k][2]]
OpenedCount(lg) ==
    Len(SelectSeq(lg, LAMBDA e : e[1] = "Opened affordablehousing.com (via driver.get)"))

(* C14: at most 3 navigation attempts are made, numbered 1, 2, 3; no attempt
   follows a successful one; after failed attempt n < 3 the job sleeps
   1.5 * n seconds and does not fail; after failed attempt 3 it does not
   sleep, and the failure is fatal: the sign-in sequence is never entered and
   the result is a failure. *)
C14_NavigationRetries ==
    /\ [](/\ attempt <= tries
          /\ Len(FailedGets(logs)) <= tries
          /\ \A k \in 1..Len(FailedGets(logs)) : FailedGets(logs)[k] = k
          /\ OpenedCount(logs) <= 1
          /\ Len(slept) <= tries - 1
          /\ \A k \in 1..Len(slept) : slept[k] = 15 * k)
    /\ [](pc = "nav" => Len(FailedGets(logs)) = attempt - 1 /\ Len(slept) = attempt - 1)
    /\ [][pc = "nav" /\ pc' = "signin" =>
            /\ OpenedCount(logs') = 1
            /\ FailedGets(logs') = FailedGets(logs)
            /\ slept' = slept]_vars
    /\ [][pc = "nav" /\ pc' = "except" =>
            /\ attempt = tries /\ Len(FailedGets(logs')) = tries
            /\ slept' = slept /\ Len(slept) = tries - 1
            /\ step' = 0 /\ OpenedCount(logs') = 0]_vars
    /\ [](Len(FailedGets(logs)) = tries =>
            /\ step = 0 /\ pc \in {"except", "finally", "done"}
            /\ pc \in {"finally", "done"} => Returned /\ ~Res.success /\ Res.error # None)

\* All three attempts failed: slept 1.5 s and 3.0 s, then a failure result.
C14_Witness ==
    /\ pc = "done" /\ ~Res.success
    /\ FailedGets(Res.debug_logs) = <<1, 2, 3>>
    /\ slept = <<15, 30>> /\ step = 0

\* Attempts 1 and 2 failed, attempt 3 succeeded: the sign-in went on.
C14_ThirdAttemptSucceeds ==
    /\ pc = "signin" /\ step >= 2
    /\ FailedGets(logs) = <<1, 2>> /\ slept = <<15, 30>> /\ exc = None

PRECHECK_FAILED == "Network pre-check failed for https://www.affordablehousing.com/"
\* The log lines that a HEAD or a GET request leaves.
HeadFailed ==
    {"HEAD failed with HTTPError, trying GET fallback", "HEAD URLError", "HEAD exception"}
ProbeLines == HeadFailed \cup {"HEAD status_code", "GET status_code", "Pre-check failed"}
Tags(lg) == {lg[k][1] : k \in 1..Len(lg)}

(* C15: with the skip flag set the pre-check sends no probe and the job goes
   on towards driver acquisition; otherwise HEAD is sent first, a HEAD that
   succeeds ends the pre-check, a HEAD that fails is followed by GET, a GET
   that succeeds ends the pre-check, and a GET that fails makes the job fail
   with no browser session acquired, before and after. *)
C15_PrecheckFallback ==
    /\ [][pc = "precheck" =>
            IF skip_check'
            THEN /\ pc' = "binaries" /\ exc' = None /\ events' = events
                 /\ logs' = Append(logs, L("SKIP_NETWORK_CHECK=true -> skipping network pre-check"))
            ELSE /\ Len(logs') = Len(logs) + (IF proxy_env THEN 3 ELSE 2)
                 /\ logs'[Len(logs) + 1] = L("Connectivity quick-check")
                 /\ IF logs'[Len(logs')] = L("HEAD status_code")
                    THEN pc' = "binaries" /\ exc' = None
                    ELSE pc' = "precheck_get" /\ logs'[Len(logs')][1] \in HeadFailed]_vars
    /\ [][pc = "precheck_get" =>
            \/ /\ logs' = Append(logs, L("GET status_code"))
               /\ pc' = "binaries" /\ exc' = None
            \/ /\ logs' = Append(logs, L("Pre-check failed"))
               /\ pc' = "except" /\ exc' = Some(PRECHECK_FAILED)]_vars
    /\ [](pc = "precheck_get" => ~skip_check /\ logs[Len(logs)][1] \in HeadFailed)
    /\ [](skip_check => Tags(logs) \cap ProbeLines = {})
    /\ [](exc = Some(PRECHECK_FAILED) =>
            /\ ~skip_check
            /\ driver = "none" /\ quitCalls = 0
            /\ pc \in {"except", "finally", "done"}
            /\ pc \in {"finally", "done"} => Returned /\ ~Res.success /\ Res.error = exc)
    /\ [](driver # "none" /\ ~skip_check =>
            {"HEAD status_code", "GET status_code"} \cap Tags(logs) # {})

\* HEAD failed, GET failed, no skip flag: a failure result and no session.
C15_Witness ==
    /\ pc = "done" /\ exc = Some(PRECHECK_FAILED) /\ ~Res.success
    /\ driver = "none" /\ quitCalls = 0
    /\ "Pre-check failed" \in Tags(Res.debug_logs)

\* The skip flag was set: the driver was acquired and no probe was sent.
C15_SkipReached ==
    /\ skip_check /\ driver = "open" /\ pc = "nav"
    /\ Tags(logs) \cap ProbeLines = {}

\* HEAD failed and GET succeeded: the job went on.
C15_FallbackReached ==
    /\ driver = "open" /\ pc = "nav"
    /\ "HEAD URLError" \in Tags(logs) /\ "GET status_code" \in Tags(logs)

\* The orchestrator state of the spec's list (1 Init .. 12 Done) that a
\* position of the worker belongs to; 0 is Failed.  ConsentHandled (5) has no
\* position in the worker, and Classified (10) is passed inside the step of
\* lines 374-384.
StateOf(p, failed) ==
    IF failed \/ p \in {"except", "rejected"} THEN 0
    ELSE CASE p = "idle" -> 1
           [] p \in {"precheck", "precheck_get", "binaries", "acquire"} -> 2
           [] p = "nav" -> 3
           [] p = "signin" -> 4
           [] p = "listing" -> 6
           [] p \in {"scroll_start", "scroll"} -> 7
           [] p = "poll" -> 8
           [] p \in {"poll_result", "collect", "classify"} -> 9
           [] p = "click" -> 11
           [] OTHER -> 12
\* The state that follows state n among those that have a position.
FollowerOf(n) == IF n \in {4, 9} THEN n + 2 ELSE n + 1

(* C16: a job moves from a state of the list only to the same state, to
   the next one, or to Failed, and never leaves Failed; a boost click is
   attempted only after the URL wait gate confirmed the sign-in, the scroll
   loop finished, the poll returned a positive count and classification
   produced a non-empty Boostable Set; a timeout of a sign-in wait leads to
   Failed, with no boost click before or after. *)
C16_FixedStateOrder ==
    /\ [][LET before == StateOf(pc, exc # None)
              after == StateOf(pc', exc' # None)
          IN  IF before = 0 THEN after = 0
              ELSE after \in {before, FollowerOf(before), 0}]_vars
    /\ [](attempted # <<>> =>
            /\ "Login confirmed (dashboard)" \in Tags(logs)
            /\ "Finished incremental scrolling" \in Tags(logs)
            /\ found_context # None /\ found_count > 0
            /\ boostable # <<>>
            /\ StateOf(pc, exc # None) \in {11, 12})
    /\ [][pc = "signin" /\ pc' # "signin" /\ step' # SignInSteps =>
            pc' = "except" /\ exc' = Some("Message: timeout")]_vars
    /\ [][pc = "signin" /\ pc' = "listing" =>
            logs' = Append(logs, L("Login confirmed (dashboard)"))]_vars
    /\ [](exc = Some("Message: timeout") =>
            /\ attempted = <<>>
            /\ pc \in {"finally", "done"} => Returned /\ ~Res.success)

\* A job went through every state up to Done, with one click.
C16_Witness ==
    /\ pc = "done" /\ Res.success /\ Len(attempted) >= 1
    /\ "Login confirmed (dashboard)" \in Tags(logs)

\* The URL wait gate timed out: Failed, and no click.
C16_GateTimeoutReached ==
    /\ pc = "done" /\ exc = Some("Message: timeout") /\ step = SignInSteps
    /\ ~Res.success /\ attempted = <<>>

(* C17: the Popup Dismissal Engine is invoked right after the start page
   loaded and before the first sign-in action, and the caller logs its outcome
   and proceeds: when the job is at the first sign-in wait, the Log has an
   entry after the line of the start page's load. *)
C17_PopupDismissalBeforeSignIn ==
    pc = "signin" /\ step = 1 =>
        logs[Len(logs)] # L("Opened affordablehousing.com (via driver.get)")

\* The default click ladder of the spec: (a), (b), (c).
Ladder == <<"native click", "scripted click", "overlay removal, native click">>

(* C18: each boost click goes through the ladder in order and stops at the
   first strategy that succeeds: the strategies tried on an element are a
   non-empty prefix of the ladder, all of it when the click is counted as
   failed, and the Log has one entry per strategy attempt. *)
C18_ClickLadder ==
    /\ \A k \in 1..Len(attempted) :
          /\ attempted[k].by # <<>>
          /\ IsPrefix(attempted[k].by, Ladder)
          /\ ~attempted[k].ok => attempted[k].by = Ladder
    /\ pc = "click" /\ Len(attempted) >= 1 =>
          \A j \in 1..Len(attempted[Len(attempted)].by) :
              logs[Len(logs) - Len(attempted[Len(attempted)].by) + j][1]
                  = attempted[Len(attempted)].by[j]

\* The lookups of a page in search order: listing card, listing item,
\* property wrapper, preceding address element.
SearchOrder(dom) == dom.ancestors \o <<dom.preceding>>
\* A lookup yields a label: the element is there and its text has a
\* character that is no space.
Yields(look) ==
    look.anc /\ look.addr_el /\ \E k \in 1..Len(look.text) : ~IsSpace(look.text[k])
\* The label a reader expects: that of the first lookup that yields one,
\* without the spaces around it; absent when none does.
ExpectedLabel(dom) ==
    LET order == SearchOrder(dom)
    IN  IF \E k \in 1..Len(order) : Yields(order[k])
        THEN LET first == CHOOSE k \in 1..Len(order) :
                              Yields(order[k]) /\ \A j \in 1..(k - 1) : ~Yields(order[j])
             IN  Some(SelectSeq(order[first].text, LAMBDA ch : ~IsSpace(ch)))
        ELSE None

(* C19: the label resolved for a button is the first non-empty label in
   the search order, a missing element or an empty label at one step falling
   through to the next, and is absent when no step yields one; resolution
   raises nothing, the button enters the Boostable Set with that label, is
   clicked, and a successful click reports that label. *)
C19_FirstNonEmptyLabel ==
    /\ [][pc = "classify" /\ idx <= Len(buttons) =>
            /\ exc' = None /\ pc' = "classify" /\ idx' = idx + 1
            /\ boostable' = Append(boostable,
                  [address |-> ExpectedLabel(buttons[idx].dom), btn |-> idx])]_vars
    /\ [](\A k \in 1..Len(boostable) :
              boostable[k].address = ExpectedLabel(buttons[boostable[k].btn].dom))
    /\ [](pc = "done" =>
            /\ Returned /\ Res.success /\ Len(attempted) = 1
            /\ attempted[1].ok =>
                  Res.clicked_addresses = <<ExpectedLabel(buttons[1].dom)>>)

\* Listing card without an address element, listing item with an empty
\* label, property wrapper with label "C": the label is "C".
C19_Witness ==
    /\ pc = "done" /\ Res.success /\ attempted[1].ok
    /\ ~buttons[1].dom.ancestors[1].addr_el
    /\ buttons[1].dom.ancestors[2].addr_el /\ buttons[1].dom.ancestors[2].text = <<" ">>
    /\ Res.clicked_addresses = <<Some(<<"C">>)>>

\* No step yields a label: the label is absent and the click went through.
C19_AbsentLabelReached ==
    /\ pc = "done" /\ Res.success /\ attempted[1].ok
    /\ \A k \in 1..4 : ~Yields(SearchOrder(buttons[1].dom)[k])
    /\ Res.clicked_addresses = <<None>> /\ Res.clicked_count = 1

(* C20: the process-wide state a job touches is read-only for the job's
   duration: no step of a job changes the proxy configuration or the
   process-wide opener that the urlopen calls of every job go through. *)
C20_ProcessStateReadOnly ==
    [][proxy_env' = proxy_env /\ opener' = opener]_vars

\* The label resolved at line 367 for the element buttons[b].
LabelOfElement(b) ==
    (CHOOSE e \in {boostable[k] : k \in 1..Len(boostable)} : e.btn = b).address

(* C21: in every Job Result, success or failure, clicked_count equals the
   length of clicked_addresses; the i-th label is the label resolved for the
   i-th element whose click went through; and a success result has error
   absent and no screenshot. *)
C21_ResultConsistent ==
    Returned =>
        /\ Res.clicked_count = Len(Res.clicked_addresses)
        /\ Len(Res.clicked_addresses) <= Len(OkAttempts)
        /\ Res.success => Len(Res.clicked_addresses) = Len(OkAttempts)
        /\ \A j \in 1..Len(Res.clicked_addresses) :
              Res.clicked_addresses[j] = LabelOfElement(attempted[OkAttempts[j]].btn)
        /\ Res.success => Res.error = None /\ Res.screenshot_base64 = None

\* A success result of two clicks that went through on elements with
\* different labels, the first one absent.
C21_Witness ==
    /\ pc = "done" /\ Res.success
    /\ Len(OkAttempts) = 2 /\ Res.clicked_count = 2
    /\ Res.clicked_addresses[1] = None /\ Res.clicked_addresses[2] # None
    /\ Res.error = None /\ Res.screenshot_base64 = None

\* A success result with a failed click before the one that went through:
\* the only label is the second element's.
C21_FailedClickReached ==
    /\ pc = "done" /\ Res.success
    /\ Len(attempted) = 2 /\ ~attempted[1].ok /\ attempted[2].ok
    /\ Res.clicked_count = 1
    /\ Res.clicked_addresses = <<LabelOfElement(attempted[2].btn)>>
    /\ boostable[1].address # boostable[2].address

\* A failure result that carries a screenshot: count 0 and no labels.
C21_FailureReached ==
    /\ pc = "done" /\ ~Res.success
    /\ Res.screenshot_base64 # None /\ Res.error # None
    /\ Res.clicked_count = 0 /\ Res.clicked_addresses = <<>>

====
